---- MODULE Spec2Model ----
(***************************************************************************)
(* A model of gitlab_changelog.py: the version parser and bumper, the      *)
(* change extractor and its normalisation, the changelog writer and the    *)
(* publish_version pipeline.                                               *)
(*                                                                         *)
(* Texts are sequences of one-character strings, so that the regular       *)
(* expressions, str.strip, str.split, str.format and int() of the source   *)
(* are computed character by character.                                    *)
(***************************************************************************)
EXTENDS Integers, Sequences, FiniteSets, TLC

(***************************************************************************)
(* Bounds of the checked instances.                                        *)
(***************************************************************************)
\* version components PATCH and rc counter range over 0..MaxNum
MaxNum == 10
\* longest input text of clean_content
MaxTextLen == 5
\* number of publish_version invocations in one behaviour
MaxRuns == 2

(***************************************************************************)
(* Characters and texts.                                                   *)
(***************************************************************************)
NL == "\n"

Digits == <<"0", "1", "2", "3", "4", "5", "6", "7", "8", "9">>

IsDigit(c) == c \in {"0", "1", "2", "3", "4", "5", "6", "7", "8", "9"}

DigitVal(c) == (CHOOSE i \in 1..10 : Digits[i] = c) - 1

\* int(text) for a text of decimal digits
RECURSIVE ToInt(_)
ToInt(ds) ==
    IF ds = <<>> THEN 0
    ELSE 10 * ToInt(SubSeq(ds, 1, Len(ds) - 1)) + DigitVal(ds[Len(ds)])

\* '{}'.format(n) for a non-negative int n
RECURSIVE ToDecimal(_)
ToDecimal(n) ==
    IF n < 10 THEN <<Digits[n + 1]>>
    ELSE ToDecimal(n \div 10) \o <<Digits[(n % 10) + 1]>>

\* the index after the longest run of digits of s that starts at i (greedy \d+;
\* i itself when s[i] is no digit)
RECURSIVE DigitsEnd(_, _)
DigitsEnd(s, i) ==
    IF i <= Len(s) /\ IsDigit(s[i]) THEN DigitsEnd(s, i + 1) ELSE i

IsPrefixOf(p, s) == Len(p) <= Len(s) /\ SubSeq(s, 1, Len(p)) = p

IsSuffixOf(p, s) ==
    Len(p) <= Len(s) /\ SubSeq(s, Len(s) - Len(p) + 1, Len(s)) = p

(***************************************************************************)
(* Version Parser and Version Bumper.                                      *)
(***************************************************************************)
NoMatch == [found |-> FALSE, start |-> 0, end |-> 0, a |-> 0, b |-> 0]

\* (\d+)\.(\d+)\.(\d+) matched at position i of s: the three runs of digits are
\* s[i..a-1], s[a+1..b-1] and s[b+1..end-1]
MatchTripleAt(s, i) ==
    LET a == DigitsEnd(s, i)
        b == DigitsEnd(s, a + 1)
        c == DigitsEnd(s, b + 1)
    IN  IF /\ a > i /\ a <= Len(s) /\ s[a] = "."
           /\ b > a + 1 /\ b <= Len(s) /\ s[b] = "."
           /\ c > b + 1
        THEN [found |-> TRUE, start |-> i, end |-> c, a |-> a, b |-> b]
        ELSE NoMatch

\* re.search(r'(\d+)\.(\d+)\.(\d+)', s): the leftmost match
RECURSIVE SearchTripleFrom(_, _)
SearchTripleFrom(s, i) ==
    IF i > Len(s) THEN NoMatch
    ELSE IF MatchTripleAt(s, i).found THEN MatchTripleAt(s, i)
    ELSE SearchTripleFrom(s, i + 1)

SearchTriple(s) == SearchTripleFrom(s, 1)

\* -rc\.(\d+) matched at position i of s, re.IGNORECASE: the index after the
\* match, or 0; the counter is s[i+4..end-1]
MatchRcAt(s, i) ==
    IF /\ i + 4 <= Len(s)
       /\ s[i] = "-"
       /\ s[i + 1] \in {"r", "R"}
       /\ s[i + 2] \in {"c", "C"}
       /\ s[i + 3] = "."
       /\ DigitsEnd(s, i + 4) > i + 4
    THEN DigitsEnd(s, i + 4)
    ELSE 0

\* re.search(r'-rc\.(\d+)', s, re.IGNORECASE): the start of the leftmost match,
\* or 0
RECURSIVE SearchRcFrom(_, _)
SearchRcFrom(s, i) ==
    IF i > Len(s) THEN 0
    ELSE IF MatchRcAt(s, i) > 0 THEN i
    ELSE SearchRcFrom(s, i + 1)

CR == "\r"

\* open(path, mode='r'): the text a read delivers has every '\r\n' and every
\* other '\r' of the file translated to '\n' (universal newlines); a write on a
\* POSIX system, where os.linesep is '\n', stores the text as it is given
UniversalNewlines(s) ==
    IF \A i \in DOMAIN s : s[i] # CR THEN s ELSE
    LET kept == SelectSeq([i \in 1..Len(s) |-> i],
                          LAMBDA i : ~(s[i] = CR /\ i < Len(s) /\ s[i + 1] = NL))
    IN  [k \in 1..Len(kept) |-> IF s[kept[k]] = CR THEN NL ELSE s[kept[k]]]

\* file.readline() of a file opened with mode='r': the text up to the first line
\* ending, which is delivered as '\n' whether the file has '\n', '\r\n' or '\r'
RECURSIVE ReadLineFrom(_, _)
ReadLineFrom(s, i) ==
    IF i > Len(s) THEN s
    ELSE IF s[i] = NL THEN SubSeq(s, 1, i)
    ELSE IF s[i] = CR THEN SubSeq(s, 1, i - 1) \o <<NL>>
    ELSE ReadLineFrom(s, i + 1)

readline(content) == ReadLineFrom(content, 1)

\* the first line handed on when it holds no version
CurrentVersionOrFirstLine(content) ==
    LET first_line == readline(content)
        m == SearchTriple(first_line)
        rcEnd == MatchRcAt(first_line, m.end)
    IN  IF ~m.found THEN first_line
        ELSE IF rcEnd > 0 THEN SubSeq(first_line, m.start, rcEnd - 1)
        ELSE SubSeq(first_line, m.start, m.end - 1)

\* get_current_version, of the content of the changelog file: group(0) of
\* (\d+\.\d+\.\d+(-rc\.\d+)?) in the first line, or ''
get_current_version(content) ==
    LET first_line == readline(content)
        m == SearchTriple(first_line)
        rcEnd == MatchRcAt(first_line, m.end)
    IN  IF ~m.found THEN <<>>
        ELSE IF rcEnd > 0 THEN SubSeq(first_line, m.start, rcEnd - 1)
        ELSE SubSeq(first_line, m.start, m.end - 1)

VersionTypes == {"major", "minor", "patch", "rc"}

Returned(text) == [status |-> "return", value |-> text]

Raised(exception) == [status |-> exception, value |-> <<>>]

\* a function that falls off its end returns None
ReturnedNone == [status |-> "None", value |-> <<>>]

\* a baseline that is already the first release candidate
DefaultVersionRcOne(version, version_type) ==
    IF version = <<>> /\ version_type = "rc"
        THEN <<"0", ".", "0", ".", "1", "-", "r", "c", ".", "1">>
    ELSE IF version = <<>> THEN <<"0", ".", "0", ".", "0">>
    ELSE version

\* lines 94-97: the baseline of an empty version
DefaultVersion(version, version_type) ==
    IF version = <<>> /\ version_type = "rc"
        THEN <<"0", ".", "0", ".", "1", "-", "r", "c", ".", "0">>
    ELSE IF version = <<>> THEN <<"0", ".", "0", ".", "0">>
    ELSE version

\* an rc counter that is never read from the version
RcCounterIgnored(version) == 0

\* lines 111-112: int(rc) of the rc counter found anywhere in the version, 0
\* when there is none
RcCounter(version) ==
    LET r == SearchRcFrom(version, 1)
    IN  IF r > 0 THEN ToInt(SubSeq(version, r + 4, MatchRcAt(version, r) - 1))
        ELSE 0

generate_version(version, version_type) ==
    LET v == DefaultVersion(version, version_type)
        m == SearchTriple(v)
        major == SubSeq(v, m.start, m.a - 1)
        minor == SubSeq(v, m.a + 1, m.b - 1)
        patch == SubSeq(v, m.b + 1, m.end - 1)
    IN  IF ~m.found THEN Raised("InvalidVersion")
        ELSE IF version_type = "patch"
            THEN Returned(major \o <<".">> \o minor \o <<".">>
                          \o ToDecimal(ToInt(patch) + 1))
        ELSE IF version_type = "minor"
            THEN Returned(major \o <<".">> \o ToDecimal(ToInt(minor) + 1)
                          \o <<".", "0">>)
        ELSE IF version_type = "major"
            THEN Returned(ToDecimal(ToInt(major) + 1) \o <<".", "0", ".", "0">>)
        ELSE IF version_type = "rc"
            THEN Returned(major \o <<".">> \o minor \o <<".">> \o patch
                          \o <<"-", "r", "c", ".">> \o ToDecimal(RcCounter(v) + 1))
        ELSE ReturnedNone

(***************************************************************************)
(* Change normalisation: clean_content.                                    *)
(***************************************************************************)
Space == {" ", NL, "\t", "\r"}

Letters ==
    {"a", "b", "c", "d", "e", "f", "g", "h", "i", "j", "k", "l", "m",
     "n", "o", "p", "q", "r", "s", "t", "u", "v", "w", "x", "y", "z",
     "A", "B", "C", "D", "E", "F", "G", "H", "I", "J", "K", "L", "M",
     "N", "O", "P", "Q", "R", "S", "T", "U", "V", "W", "X", "Y", "Z"}

\* [a-zA-Z0-9\.\-]
HandleChars ==
    Letters \cup {"0", "1", "2", "3", "4", "5", "6", "7", "8", "9", ".", "-"}

\* the index after the longest run of characters of cs in s that starts at i
RECURSIVE SkipChars(_, _, _)
SkipChars(s, i, cs) ==
    IF i <= Len(s) /\ s[i] \in cs THEN SkipChars(s, i + 1, cs) ELSE i

\* the index of the last character of s that is not in cs, 0 when there is none
RECURSIVE LastNotIn(_, _, _)
LastNotIn(s, i, cs) ==
    IF i >= 1 /\ s[i] \in cs THEN LastNotIn(s, i - 1, cs) ELSE i

\* str.strip()
Strip(s) == SubSeq(s, SkipChars(s, 1, Space), LastNotIn(s, Len(s), Space))

\* text.split('\n')
RECURSIVE SplitFrom(_, _, _)
SplitFrom(s, i, start) ==
    IF i > Len(s) THEN <<SubSeq(s, start, Len(s))>>
    ELSE IF s[i] = NL
        THEN <<SubSeq(s, start, i - 1)>> \o SplitFrom(s, i + 1, i + 1)
    ELSE SplitFrom(s, i + 1, start)

Split(text) == SplitFrom(text, 1, 1)

\* ^-\s*\[[xX\s]*\]\s*@\s*[a-zA-Z0-9\.\-]+ matched at the start of s: the index
\* after the match, or 0
MemberEnd(s) ==
    LET j == SkipChars(s, 2, Space)
        k == SkipChars(s, j + 1, {"x", "X"} \cup Space)
        l == SkipChars(s, k + 1, Space)
        m == SkipChars(s, l + 1, Space)
        n == SkipChars(s, m, HandleChars)
    IN  IF /\ Len(s) >= 1 /\ s[1] = "-"
           /\ j <= Len(s) /\ s[j] = "["
           /\ k <= Len(s) /\ s[k] = "]"
           /\ l <= Len(s) /\ s[l] = "@"
           /\ n > m
        THEN n
        ELSE 0

\* re.sub(r'^-\s*\[[xX\s]*\]\s*@\s*[a-zA-Z0-9\.\-]+', '', item)
RemoveMember(item) ==
    IF MemberEnd(item) > 0 THEN SubSeq(item, MemberEnd(item), Len(item))
    ELSE item

\* ^[-\*]\s* without the repetition: one marker only
RemoveOneBullet(item) ==
    IF Len(item) >= 1 /\ item[1] \in {"-", "*"}
        THEN SubSeq(item, SkipChars(item, 2, Space), Len(item))
    ELSE item

\* re.sub(r'^([-\*]\s*)+', '', item)
RemoveBullets(item) ==
    IF Len(item) >= 1 /\ item[1] \in {"-", "*"}
        THEN SubSeq(item, SkipChars(item, 1, {"-", "*"} \cup Space), Len(item))
    ELSE item

\* clean_content: a text that is None or '' gives []
clean_content(text) ==
    IF text = <<>> THEN <<>>
    ELSE LET items0 == Split(text)
             items1 == [i \in DOMAIN items0 |-> Strip(items0[i])]
             items2 == [i \in DOMAIN items1 |-> Strip(RemoveMember(items1[i]))]
             items3 == [i \in DOMAIN items2 |-> Strip(RemoveBullets(items2[i]))]
         IN  SelectSeq(items3, LAMBDA item : item # <<>>)

(***************************************************************************)
(* Change Extractor.                                                       *)
(***************************************************************************)
\* a scan that passes over a matching merge request with no description
RECURSIVE ScanMergeRequestsSkipEmpty(_, _, _)
ScanMergeRequestsSkipEmpty(merge_requests, i, sha) ==
    IF i > Len(merge_requests) THEN <<>>
    ELSE IF /\ merge_requests[i].merge_commit_sha = sha
            /\ merge_requests[i].description # <<>>
        THEN clean_content(merge_requests[i].description)
    ELSE ScanMergeRequestsSkipEmpty(merge_requests, i + 1, sha)

\* lines 152-157: the scan of the merge requests, in the order of the response
RECURSIVE ScanMergeRequests(_, _, _)
ScanMergeRequests(merge_requests, i, sha) ==
    IF i > Len(merge_requests) THEN <<>>
    ELSE IF merge_requests[i].merge_commit_sha = sha
        THEN IF merge_requests[i].description # <<>>
                 THEN clean_content(merge_requests[i].description)
             ELSE <<>>
    ELSE ScanMergeRequests(merge_requests, i + 1, sha)

\* get_merge_request_changes, of the merge requests the forge answered with
get_merge_request_changes(merge_requests, sha) ==
    ScanMergeRequests(merge_requests, 1, sha)

\* get_commit_changes, of the title of the commit the forge answered with
get_commit_changes(title) == clean_content(title)

(***************************************************************************)
(* Changelog Writer and the merge request description.                     *)
(***************************************************************************)
\* sep.join(items)
RECURSIVE Join(_, _)
Join(sep, items) ==
    IF items = <<>> THEN <<>>
    ELSE IF Len(items) = 1 THEN items[1]
    ELSE items[1] \o sep \o Join(sep, Tail(items))

\* an entry written below the content read from the file
ChangelogEntryAppended(version, version_changes, now, content) ==
    LET changes == <<" ", " ", "-", " ">>
                   \o Join(<<NL, " ", " ", "-", " ">>, version_changes)
    IN  content \o version \o <<NL, NL>> \o changes \o <<NL, NL>> \o now
        \o <<NL, NL>>

\* lines 217-219: the text generate_changelog writes, content being the text
\* read from the file
ChangelogEntry(version, version_changes, now, content) ==
    LET changes == <<" ", " ", "-", " ">>
                   \o Join(<<NL, " ", " ", "-", " ">>, version_changes)
    IN  version \o <<NL, NL>> \o changes \o <<NL, NL>> \o now \o <<NL, NL>>
        \o content

\* lines 281-282: the description of the automatic merge request
MergeRequestDescription(version_changes) ==
    <<"-", " ">> \o Join(<<NL, "-", " ">>, version_changes)
    \o <<NL, NL, "-", " ", "-", " ", "-", " ", NL, NL,
         "-", " ", "[", " ", "]", " ", "@",
         "b", "r", "u", "n", "a", "b", "x", "s">>

(***************************************************************************)
(* The inputs of the checked instances.                                    *)
(***************************************************************************)
Branches == {"master", "develop", "feature/x"}

Shas == {"sha_a", "sha_b"}

\* exit codes of the git processes
ReturnCodes == {0, 1}

\* strftime of a naive datetime: %z and %Z are empty; the clock of the n-th
\* invocation
Timestamp(n) ==
    <<"M", "o", "n", " ", "0", "9", ":">> \o ToDecimal(n) \o <<" ", " ">>

\* a version on the first line; a prefixed release candidate; no version on the
\* first line, and '\r\n' line endings
InitialChangelogs ==
    {<<"1", ".", "2", ".", "3", NL, NL, " ", " ", "-", " ", "a", NL>>,
     <<"v", "1", ".", "2", ".", "9", "-", "r", "c", ".", "9", NL>>,
     <<"#", " ", "l", "o", "g", CR, NL, "0", ".", "9", ".", "9", CR, NL>>}

\* sha_a: the first match has no description, a later match is not looked at;
\* sha_b: a description of two changes
\* sha_a: no merge request matches; sha_b: a description that is cleaned to
\* nothing
MergeRequestLists ==
    {<<[merge_commit_sha |-> "sha_a", description |-> <<>>],
       [merge_commit_sha |-> "sha_a", description |-> <<"-", " ", "X">>],
       [merge_commit_sha |-> "sha_b",
        description |-> <<"-", " ", "F", "i", "x", CR, NL, "*", " ", "A", "d", "d", NL>>]>>,
     <<[merge_commit_sha |-> "sha_b",
        description |-> <<"-", " ", "[", "x", "]", " ", "@", "a", "l", NL, "-", " ", "-", " ", "-">>],
       [merge_commit_sha |-> "sha_c", description |-> <<" ", "F", "i", "x", " ">>]>>}

CommitTitles == {<<"F", "i", "x">>, <<"-", " ", "-", " ", "-">>}

(***************************************************************************)
(* The state.                                                              *)
(*                                                                         *)
(* The changelog file, the local and the remote git repository and the     *)
(* forge outlive an invocation of publish_version; the other variables are *)
(* the arguments, the locals and the position of the running invocation.   *)
(* calls, outcome, failed_op, before and initial_changelog record what     *)
(* happened, for the properties; no action reads them.                     *)
(***************************************************************************)
VARIABLES
    run,                \* the number of the invocation of publish_version
    pc,                 \* the operation publish_version is about to start
    outcome,            \* "running", "returned" or the exception raised
    failed_op,          \* the operation that raised, "" when none did
    calls,              \* the operations started by this invocation, in order
    target_branch,      \* argument
    same_object,        \* target_branch is the object of the literal 'master'
    commit_sha,         \* argument
    changelog,          \* the content of the changelog file
    initial_changelog,  \* its content before the first invocation
    before,             \* changelog and repositories when the invocation began
    version_type,       \* local of publish_version
    new_version,        \* local of publish_version
    merge_request_changes, \* local of get_version_changes
    new_version_changes,   \* local of publish_version
    now,                \* local of generate_changelog
    merge_requests,     \* the forge's answer to GET merge_requests
    commit_title,       \* the title in the forge's answer to GET commits/sha
    commits,            \* the commits of the local repository made here
    tags,               \* the tags of the local repository made here
    remote_commits,     \* what git push origin master delivered
    remote_tags,        \* what git push origin master --tags delivered
    created,            \* the merge requests POSTed to the forge
    merged,             \* the iids POSTed to the merge endpoint
    gv,                 \* a call of generate_version on its own
    cc                  \* a call of clean_content on its own

vars ==
    <<run, pc, outcome, failed_op, calls, target_branch, same_object,
      commit_sha, changelog, initial_changelog, before, version_type,
      new_version, merge_request_changes, new_version_changes, now,
      merge_requests, commit_title, commits, tags, remote_commits,
      remote_tags, created, merged, gv, cc>>

forge == <<merge_requests, commit_title>>

arguments == <<target_branch, same_object, commit_sha>>

repository == <<commits, tags, remote_commits, remote_tags>>

alone == <<gv, cc>>

Snapshot(content, c, t, rc, rt, cr, mg) ==
    [changelog |-> content, commits |-> c, tags |-> t, remote_commits |-> rc,
     remote_tags |-> rt, created |-> cr, merged |-> mg]

NoCall == [done |-> FALSE]

\* the arguments main passes on: a target_branch that is the object of the
\* literal 'master' of line 274 is equal to it, an equal string need not be that
\* object (a string built at run time, as argparse's are, is not interned)
Arguments(branch, same, sha) ==
    /\ branch \in Branches
    /\ same \in BOOLEAN
    /\ same => branch = "master"
    /\ sha \in Shas

\* lines 57-61 begin with these locals unset
EnterPublishVersion ==
    /\ pc' = "generate_version"
    /\ outcome' = "running"
    /\ failed_op' = ""
    /\ calls' = <<>>
    /\ version_type' = "patch"
    /\ new_version' = <<>>
    /\ merge_request_changes' = <<>>
    /\ new_version_changes' = <<>>
    /\ now' = <<>>

Init ==
    /\ run = 1
    /\ pc = "generate_version"
    /\ outcome = "running"
    /\ failed_op = ""
    /\ calls = <<>>
    /\ Arguments(target_branch, same_object, commit_sha)
    /\ changelog \in InitialChangelogs
    /\ initial_changelog = changelog
    /\ before = Snapshot(changelog, <<>>, <<>>, <<>>, <<>>, <<>>, <<>>)
    /\ version_type = "patch"
    /\ new_version = <<>>
    /\ merge_request_changes = <<>>
    /\ new_version_changes = <<>>
    /\ now = <<>>
    /\ merge_requests \in MergeRequestLists
    /\ commit_title \in CommitTitles
    /\ commits = <<>>
    /\ tags = <<>>
    /\ remote_commits = <<>>
    /\ remote_tags = <<>>
    /\ created = <<>>
    /\ merged = <<>>
    /\ gv = NoCall
    /\ cc = NoCall

\* an exception leaves publish_version
Raise(op, exception) ==
    /\ pc' = "done"
    /\ outcome' = exception
    /\ failed_op' = op

Continue(next) ==
    /\ pc' = next
    /\ UNCHANGED <<outcome, failed_op>>

\* '{}'.format(None), had generate_version returned None
TextOf(result) ==
    IF result.status = "None" THEN <<"N", "o", "n", "e">> ELSE result.value

\* a policy that bumps the minor version on master
SelectVersionTypeMinorOnMaster(branch) ==
    IF branch = "develop" THEN "rc"
    ELSE IF branch = "master" THEN "minor"
    ELSE "patch"

\* lines 57-59
SelectVersionType(branch) == IF branch = "develop" THEN "rc" ELSE "patch"

\* lines 57-61
GenerateVersion ==
    /\ pc = "generate_version"
    /\ calls' = Append(calls, "generate_version")
    /\ version_type' = SelectVersionType(target_branch)
    /\ LET result == generate_version(get_current_version(changelog),
                                      version_type')
       IN  \/ /\ result.status = "InvalidVersion"
              /\ Raise("generate_version", "InvalidVersion")
              /\ UNCHANGED new_version
           \/ /\ result.status # "InvalidVersion"
              /\ new_version' = TextOf(result)
              /\ Continue("get_merge_request_changes")
    /\ UNCHANGED <<run, arguments, changelog, initial_changelog, before,
                   merge_request_changes, new_version_changes, now, forge,
                   repository, created, merged, alone>>

\* the commit changes fetched whatever the merge request changes are
GetMergeRequestChangesThenCommit ==
    /\ pc = "get_merge_request_changes"
    /\ calls' = Append(calls, "get_merge_request_changes")
    /\ \/ /\ Raise("get_merge_request_changes", "HTTPError")
          /\ UNCHANGED <<merge_request_changes, new_version_changes>>
       \/ /\ merge_request_changes' =
                 get_merge_request_changes(merge_requests, commit_sha)
          /\ new_version_changes' = merge_request_changes'
          /\ Continue("get_commit_changes")
    /\ UNCHANGED <<run, arguments, changelog, initial_changelog, before,
                   version_type, new_version, now, forge, repository, created,
                   merged, alone>>

\* line 130 and lines 147-157, then lines 131-132
GetMergeRequestChanges ==
    /\ pc = "get_merge_request_changes"
    /\ calls' = Append(calls, "get_merge_request_changes")
    /\ \/ /\ Raise("get_merge_request_changes", "HTTPError")
          /\ UNCHANGED <<merge_request_changes, new_version_changes>>
       \/ /\ merge_request_changes' =
                 get_merge_request_changes(merge_requests, commit_sha)
          /\ IF merge_request_changes' # <<>>
                 THEN /\ new_version_changes' = merge_request_changes'
                      /\ Continue("generate_changelog")
             ELSE /\ UNCHANGED new_version_changes
                  /\ Continue("get_commit_changes")
    /\ UNCHANGED <<run, arguments, changelog, initial_changelog, before,
                   version_type, new_version, now, forge, repository, created,
                   merged, alone>>

\* line 133 and lines 171-175
GetCommitChanges ==
    /\ pc = "get_commit_changes"
    /\ calls' = Append(calls, "get_commit_changes")
    /\ \/ /\ Raise("get_commit_changes", "HTTPError")
          /\ UNCHANGED new_version_changes
       \/ /\ new_version_changes' = get_commit_changes(commit_title)
          /\ Continue("generate_changelog")
    /\ UNCHANGED <<run, arguments, changelog, initial_changelog, before,
                   version_type, new_version, merge_request_changes, now, forge,
                   repository, created, merged, alone>>

\* the file rewritten before the change set is looked at
GenerateChangelogWriteFirst ==
    /\ pc = "generate_changelog"
    /\ calls' = Append(calls, "generate_changelog")
    /\ now' = Timestamp(run)
    /\ changelog' = ChangelogEntry(new_version, new_version_changes, now',
                                   UniversalNewlines(changelog))
    /\ IF new_version_changes # <<>>
           THEN Continue("git_commit")
       ELSE Raise("generate_changelog", "NoChanges")
    /\ UNCHANGED <<run, arguments, initial_changelog, before, version_type,
                   new_version, merge_request_changes, new_version_changes,
                   forge, repository, created, merged, alone>>

\* lines 63-65 and 212-221
GenerateChangelog ==
    /\ pc = "generate_changelog"
    /\ calls' = Append(calls, "generate_changelog")
    /\ IF new_version_changes # <<>>
           THEN /\ now' = Timestamp(run)
                /\ changelog' = ChangelogEntry(new_version, new_version_changes,
                                               now', UniversalNewlines(changelog))
                /\ Continue("git_commit")
       ELSE /\ Raise("generate_changelog", "NoChanges")
            /\ UNCHANGED <<now, changelog>>
    /\ UNCHANGED <<run, arguments, initial_changelog, before, version_type,
                   new_version, merge_request_changes, new_version_changes,
                   forge, repository, created, merged, alone>>

\* 'Update changelog ({})'.format(target_branch)
CommitMessage(branch) == <<"Update changelog", branch>>

\* a failed commit that is recorded and then passed over
GitCommitSwallowed ==
    /\ pc = "git_commit"
    /\ calls' = Append(calls, "git_commit")
    /\ \E return_code \in ReturnCodes :
           IF return_code # 0
               THEN /\ pc' = "git_tag"
                    /\ outcome' = "CommitError"
                    /\ failed_op' = "git_commit"
                    /\ UNCHANGED commits
           ELSE /\ commits' = Append(commits, CommitMessage(target_branch))
                /\ Continue("git_tag")
    /\ UNCHANGED <<run, arguments, changelog, initial_changelog, before,
                   version_type, new_version, merge_request_changes,
                   new_version_changes, now, forge, tags, remote_commits,
                   remote_tags, created, merged, alone>>

\* lines 66 and 230-234
GitCommit ==
    /\ pc = "git_commit"
    /\ calls' = Append(calls, "git_commit")
    /\ \E return_code \in ReturnCodes :
           IF return_code # 0
               THEN /\ Raise("git_commit", "CommitError")
                    /\ UNCHANGED commits
           ELSE /\ commits' = Append(commits, CommitMessage(target_branch))
                /\ Continue("git_tag")
    /\ UNCHANGED <<run, arguments, changelog, initial_changelog, before,
                   version_type, new_version, merge_request_changes,
                   new_version_changes, now, forge, tags, remote_commits,
                   remote_tags, created, merged, alone>>

\* lines 67 and 243-246
GitTag ==
    /\ pc = "git_tag"
    /\ calls' = Append(calls, "git_tag")
    /\ \E return_code \in ReturnCodes :
           IF return_code # 0
               THEN /\ Raise("git_tag", "TagError")
                    /\ UNCHANGED tags
           ELSE /\ tags' = Append(tags, new_version)
                /\ Continue("git_push_branch")
    /\ UNCHANGED <<run, arguments, changelog, initial_changelog, before,
                   version_type, new_version, merge_request_changes,
                   new_version_changes, now, forge, commits, remote_commits,
                   remote_tags, created, merged, alone>>

\* a failed push that deletes the tag just made
GitPushBranchRollback ==
    /\ pc = "git_push_branch"
    /\ calls' = Append(calls, "git_push_branch")
    /\ \E return_code \in ReturnCodes :
           IF return_code # 0
               THEN /\ Raise("git_push_branch", "PushError")
                    /\ tags' = SubSeq(tags, 1, Len(tags) - 1)
                    /\ UNCHANGED remote_commits
           ELSE /\ remote_commits' = commits
                /\ UNCHANGED tags
                /\ Continue("git_push_tags")
    /\ UNCHANGED <<run, arguments, changelog, initial_changelog, before,
                   version_type, new_version, merge_request_changes,
                   new_version_changes, now, forge, commits,
                   remote_tags, created, merged, alone>>

\* lines 68 and 254-257: git push origin master
GitPushBranch ==
    /\ pc = "git_push_branch"
    /\ calls' = Append(calls, "git_push_branch")
    /\ \E return_code \in ReturnCodes :
           IF return_code # 0
               THEN /\ Raise("git_push_branch", "PushError")
                    /\ UNCHANGED remote_commits
           ELSE /\ remote_commits' = commits
                /\ Continue("git_push_tags")
    /\ UNCHANGED <<run, arguments, changelog, initial_changelog, before,
                   version_type, new_version, merge_request_changes,
                   new_version_changes, now, forge, commits, tags,
                   remote_tags, created, merged, alone>>

\* lines 258-261: git push origin master --tags
GitPushTags ==
    /\ pc = "git_push_tags"
    /\ calls' = Append(calls, "git_push_tags")
    /\ \E return_code \in ReturnCodes :
           IF return_code # 0
               THEN /\ Raise("git_push_tags", "PushError")
                    /\ UNCHANGED remote_tags
           ELSE /\ remote_tags' = tags
                /\ Continue("git_new_merge_request")
    /\ UNCHANGED <<run, arguments, changelog, initial_changelog, before,
                   version_type, new_version, merge_request_changes,
                   new_version_changes, now, forge, commits, tags,
                   remote_commits, created, merged, alone>>

\* target_branch is not 'master' (line 274): an identity test of the objects
IsNotMaster == ~same_object

\* lines 69 and 274-285: the early return, or the POST that creates the merge
\* request
GitNewMergeRequest ==
    /\ pc = "git_new_merge_request"
    /\ IF IsNotMaster
           THEN /\ pc' = "done"
                /\ outcome' = "returned"
                /\ UNCHANGED <<failed_op, calls, created>>
       ELSE /\ calls' = Append(calls, "create_merge_request")
            /\ \/ /\ Raise("create_merge_request", "HTTPError")
                  /\ UNCHANGED created
               \/ /\ created' = Append(created,
                         [source_branch |-> "master", target_branch |-> "develop",
                          description |->
                              MergeRequestDescription(new_version_changes)])
                  /\ Continue("merge")
    /\ UNCHANGED <<run, arguments, changelog, initial_changelog, before,
                   version_type, new_version, merge_request_changes,
                   new_version_changes, now, forge, repository, merged, alone>>

\* lines 287-293: the POST to the merge endpoint of the merge request just
\* created
MergeMergeRequest ==
    /\ pc = "merge"
    /\ calls' = Append(calls, "merge")
    /\ \/ /\ Raise("merge", "HTTPError")
          /\ UNCHANGED merged
       \/ /\ merged' = Append(merged, Len(created))
          /\ pc' = "done"
          /\ outcome' = "returned"
          /\ UNCHANGED failed_op
    /\ UNCHANGED <<run, arguments, changelog, initial_changelog, before,
                   version_type, new_version, merge_request_changes,
                   new_version_changes, now, forge, repository, created, alone>>

\* lines 38-42: the program is run again, on what the last run left
Main ==
    /\ pc = "done"
    /\ run < MaxRuns
    /\ run' = run + 1
    /\ Arguments(target_branch', same_object', commit_sha')
    /\ before' = Snapshot(changelog, commits, tags, remote_commits,
                          remote_tags, created, merged)
    /\ EnterPublishVersion
    /\ UNCHANGED <<changelog, initial_changelog, forge, repository, created,
                   merged, alone>>

Next ==
    \/ GenerateVersion
    \/ GetMergeRequestChanges
    \/ GetCommitChanges
    \/ GenerateChangelog
    \/ GitCommit
    \/ GitTag
    \/ GitPushBranch
    \/ GitPushTags
    \/ GitNewMergeRequest
    \/ MergeMergeRequest
    \/ Main

Spec == Init /\ [][Next]_vars

(***************************************************************************)
(* generate_version and clean_content called on their own, on inputs drawn *)
(* from bounded sets; publish_version is not running.                      *)
(***************************************************************************)
NotRunning ==
    /\ run = 0
    /\ pc = "alone"
    /\ outcome = "returned"
    /\ failed_op = ""
    /\ calls = <<>>
    /\ target_branch = "master"
    /\ same_object = FALSE
    /\ commit_sha = "sha_a"
    /\ changelog = <<>>
    /\ initial_changelog = <<>>
    /\ before = Snapshot(<<>>, <<>>, <<>>, <<>>, <<>>, <<>>, <<>>)
    /\ version_type = "patch"
    /\ new_version = <<>>
    /\ merge_request_changes = <<>>
    /\ new_version_changes = <<>>
    /\ now = <<>>
    /\ merge_requests = <<>>
    /\ commit_title = <<>>
    /\ commits = <<>>
    /\ tags = <<>>
    /\ remote_commits = <<>>
    /\ remote_tags = <<>>
    /\ created = <<>>
    /\ merged = <<>>

publish ==
    <<run, pc, outcome, failed_op, calls, target_branch, same_object,
      commit_sha, changelog, initial_changelog, before, version_type,
      new_version, merge_request_changes, new_version_changes, now,
      merge_requests, commit_title, commits, tags, remote_commits,
      remote_tags, created, merged>>

\* the components a version text is written from; rc < 0: no rc counter
VersionParts ==
    [prefix : {<<>>, <<"v">>}, major : {0, 1, 9}, minor : {0, 2, 9},
     patch : 0..MaxNum, rc : (-1)..MaxNum, upper : BOOLEAN]

VersionText(p) ==
    p.prefix \o ToDecimal(p.major) \o <<".">> \o ToDecimal(p.minor) \o <<".">>
    \o ToDecimal(p.patch)
    \o (IF p.rc < 0 THEN <<>>
        ELSE (IF p.upper THEN <<"-", "R", "C", ".">> ELSE <<"-", "r", "c", ".">>)
             \o ToDecimal(p.rc))

\* texts with no numeric triple
NoVersionTexts == {<<>>, <<"x">>, <<"1", ".", "2">>, <<"1", ".", ".", "2", ".", "3">>}

InitVersion ==
    /\ NotRunning
    /\ cc = NoCall
    /\ \E type \in VersionTypes \cup {"other"} :
           \/ \E p \in VersionParts :
                  /\ p.upper => p.rc >= 0
                  /\ gv = [done |-> FALSE, version |-> VersionText(p),
                           type |-> type, valid |-> TRUE, parts |-> p]
           \/ \E text \in NoVersionTexts :
                  gv = [done |-> FALSE, version |-> text, type |-> type,
                        valid |-> FALSE,
                        parts |-> [prefix |-> <<>>, major |-> 0, minor |-> 0,
                                   patch |-> 0, rc |-> -1, upper |-> FALSE]]

GenerateVersionCall ==
    /\ gv.done = FALSE
    /\ pc = "alone"
    /\ "version" \in DOMAIN gv
    /\ gv' = [done |-> TRUE, version |-> gv.version, type |-> gv.type,
              valid |-> gv.valid, parts |-> gv.parts,
              result |-> generate_version(gv.version, gv.type)]
    /\ UNCHANGED <<publish, cc>>

NextVersion == GenerateVersionCall

SpecVersion == InitVersion /\ [][NextVersion]_vars

\* lines 57-61 on their own: the version publish_version computes from the
\* content of the changelog file and the target branch
ContentAlphabet == {"1", "9", ".", "-", NL, CR}

ContentTexts ==
    UNION {[1..n -> ContentAlphabet] : n \in 0..MaxTextLen}
    \cup InitialChangelogs
    \cup {<<"#", " ">> \o VersionText(p) \o <<NL, "x">> :
              p \in {q \in VersionParts : q.upper => q.rc >= 0}}

InitCurrent ==
    /\ NotRunning
    /\ cc = NoCall
    /\ \E content \in ContentTexts, branch \in Branches :
           gv = [done |-> FALSE, content |-> content, branch |-> branch]

NewVersionCall ==
    /\ gv.done = FALSE
    /\ pc = "alone"
    /\ "content" \in DOMAIN gv
    /\ LET type == SelectVersionType(gv.branch)
           current == get_current_version(gv.content)
       IN  gv' = [done |-> TRUE, content |-> gv.content, branch |-> gv.branch,
                  version_type |-> type, current |-> current,
                  result |-> generate_version(current, type)]
    /\ UNCHANGED <<publish, cc>>

NextCurrent == NewVersionCall

SpecCurrent == InitCurrent /\ [][NextCurrent]_vars

CleanAlphabet == {"-", "*", " ", NL, "[", "]", "x", "@"}

CleanTexts == UNION {[1..n -> CleanAlphabet] : n \in 0..MaxTextLen}

InitClean ==
    /\ NotRunning
    /\ gv = NoCall
    /\ \E text \in CleanTexts : cc = [done |-> FALSE, text |-> text]

CleanContentCall ==
    /\ cc.done = FALSE
    /\ pc = "alone"
    /\ "text" \in DOMAIN cc
    /\ cc' = [done |-> TRUE, text |-> cc.text, result |-> clean_content(cc.text)]
    /\ UNCHANGED <<publish, gv>>

NextClean == CleanContentCall

SpecClean == InitClean /\ [][NextClean]_vars

\* lines 281-282 and then clean_content: the description git_new_merge_request
\* builds from a change set clean_content returned, normalised again as
\* get_merge_request_changes normalises the description of a merge request
DescriptionCall ==
    /\ cc.done = TRUE
    /\ pc = "alone"
    /\ "result" \in DOMAIN cc
    /\ "description" \notin DOMAIN cc
    /\ cc.result # <<>>
    /\ LET description == MergeRequestDescription(cc.result)
       IN  cc' = [done |-> TRUE, text |-> cc.text, result |-> cc.result,
                  description |-> description,
                  again |-> clean_content(description),
                  joined |-> clean_content(Join(<<NL>>, cc.result))]
    /\ UNCHANGED <<publish, gv>>

NextDescription == CleanContentCall \/ DescriptionCall

SpecDescription == InitClean /\ [][NextDescription]_vars

(***************************************************************************)
(* Properties.                                                             *)
(***************************************************************************)
Started(op) == \E i \in DOMAIN calls : calls[i] = op

Succeeded(op) == Started(op) /\ failed_op # op

Count(op) == Cardinality({i \in DOMAIN calls : calls[i] = op})

\* the operations of publish_version, in the order of lines 61-69 and 277-292
PipelineOrder ==
    <<"generate_version", "get_version_changes", "generate_changelog",
      "git_commit", "git_tag", "git_push_branch", "git_push_tags",
      "create_merge_request", "merge">>

\* the two requests of get_version_changes are one operation of the pipeline
OperationOf(call) ==
    IF call \in {"get_merge_request_changes", "get_commit_changes"}
        THEN "get_version_changes"
    ELSE call

RECURSIVE Collapse(_)
Collapse(cs) ==
    IF Len(cs) <= 1 THEN [i \in DOMAIN cs |-> OperationOf(cs[i])]
    ELSE IF OperationOf(cs[1]) = OperationOf(cs[2]) THEN Collapse(Tail(cs))
    ELSE <<OperationOf(cs[1])>> \o Collapse(Tail(cs))

ExceptionOf(op) ==
    CASE op = "generate_version" -> "InvalidVersion"
      [] op = "generate_changelog" -> "NoChanges"
      [] op = "git_commit" -> "CommitError"
      [] op = "git_tag" -> "TagError"
      [] op \in {"git_push_branch", "git_push_tags"} -> "PushError"
      [] OTHER -> "HTTPError"

Failed == outcome \notin {"running", "returned"}

\* C1: the operations of publish_version start in the fixed order compute
\* version, fetch changes, write changelog, commit, tag, push branch, push tags,
\* create merge request, merge; when one of them fails it is the last operation
\* the invocation ever started, publish_version has ended, and its outcome is
\* that operation's failure.
C1_FailFast ==
    /\ IsPrefixOf(Collapse(calls), PipelineOrder)
    /\ Failed =>
           /\ pc = "done"
           /\ calls # <<>>
           /\ failed_op = calls[Len(calls)]
           /\ outcome = ExceptionOf(failed_op)
    /\ ~Failed => failed_op = ""
    /\ outcome = "returned" =>
           /\ pc = "done"
           /\ IsPrefixOf(SubSeq(PipelineOrder, 1, 7), Collapse(calls))

\* a commit that exited non-zero: tag, pushes and merge request never started
C1_Witness ==
    /\ outcome = "CommitError"
    /\ calls[Len(calls)] = "git_commit"
    /\ pc = "done"

\* C2: once the pushes have succeeded and git_new_merge_request has acted, the
\* merge request was requested if and only if target_branch equals 'master'.
C2_MergeRequestIffMaster ==
    (pc \in {"merge", "done"} /\ Succeeded("git_push_tags")) =>
        (Started("create_merge_request") <=> target_branch = "master")

\* C3: get_version_changes returns the merge request changes when they are
\* non-empty and then get_commit_changes is never invoked; only when they are
\* empty is get_commit_changes invoked, once, and its result returned.
C3_Precedence ==
    LET mr == merge_request_changes
        returned == /\ Succeeded("get_merge_request_changes")
                    /\ pc \notin {"get_commit_changes"}
                    /\ failed_op # "get_commit_changes"
    IN  /\ Count("get_commit_changes") <= 1
        /\ Started("get_commit_changes") =>
               Succeeded("get_merge_request_changes") /\ mr = <<>>
        /\ Succeeded("get_merge_request_changes") =>
               mr = get_merge_request_changes(merge_requests, commit_sha)
        /\ returned =>
               IF mr # <<>>
                   THEN /\ new_version_changes = mr
                        /\ ~Started("get_commit_changes")
               ELSE /\ Count("get_commit_changes") = 1
                    /\ new_version_changes = clean_content(commit_title)

\* the merge request changes were non-empty and were returned
C3_Witness ==
    /\ pc = "generate_changelog"
    /\ new_version_changes # <<>>
    /\ calls = <<"generate_version", "get_merge_request_changes">>

\* C4: generate_changelog with an empty change set fails with NoChanges and
\* leaves the changelog file as it was, and publish_version then makes no
\* commit, tag, push or merge request.
C4_NoChanges ==
    /\ (Started("generate_changelog") /\ new_version_changes = <<>>) =>
           /\ outcome = "NoChanges"
           /\ changelog = before.changelog
           /\ calls[Len(calls)] = "generate_changelog"
           /\ commits = before.commits
           /\ tags = before.tags
           /\ remote_commits = before.remote_commits
           /\ remote_tags = before.remote_tags
           /\ created = before.created
           /\ merged = before.merged
    /\ outcome = "NoChanges" => new_version_changes = <<>>

C4_Witness ==
    /\ outcome = "NoChanges"
    /\ failed_op = "generate_changelog"
    /\ before.changelog # <<>>

\* the file after a successful generate_changelog, line by line, when the
\* content it was prepended to is prior
EntryThenPrior(prior) ==
    LET lines == Split(changelog)
        n == Len(new_version_changes)
    IN  /\ n >= 1
        /\ Len(lines) >= n + 6
        /\ lines[1] = new_version
        /\ lines[2] = <<>>
        /\ \A i \in 1..n :
               lines[2 + i] = <<" ", " ", "-", " ">> \o new_version_changes[i]
        /\ lines[n + 3] = <<>>
        /\ lines[n + 4] = now
        /\ lines[n + 5] = <<>>
        /\ Join(<<NL>>, SubSeq(lines, n + 6, Len(lines))) = prior

\* C5: a successful generate_changelog leaves the file as the version line, a
\* blank line, one '  - <item>' line per change in order, a blank line, the
\* timestamp line, a blank line and then the complete prior content unchanged;
\* the content before the first invocation stays a verbatim suffix of the file.
C5_PrependOnly ==
    /\ Succeeded("generate_changelog") => EntryThenPrior(before.changelog)
    /\ ~Succeeded("generate_changelog") => changelog = before.changelog
    /\ IsSuffixOf(before.changelog, changelog)
    /\ IsSuffixOf(initial_changelog, changelog)

\* what does hold of the rewrite: the entry is followed by the prior content as
\* a text-mode read delivers it, its line endings translated to '\n'
PrependsTranslatedContent ==
    /\ Succeeded("generate_changelog") =>
           EntryThenPrior(UniversalNewlines(before.changelog))
    /\ ~Succeeded("generate_changelog") => changelog = before.changelog
    /\ IsSuffixOf(UniversalNewlines(before.changelog), UniversalNewlines(changelog))
    /\ IsSuffixOf(UniversalNewlines(initial_changelog),
                  UniversalNewlines(changelog))

Dotted(a, b, c) == a \o <<".">> \o b \o <<".">> \o c

\* C6: on a version text with the numeric triple MAJOR.MINOR.PATCH
\* generate_version returns MAJOR.MINOR.(PATCH+1) for 'patch',
\* MAJOR.(MINOR+1).0 for 'minor', (MAJOR+1).0.0 for 'major' and
\* MAJOR.MINOR.PATCH-rc.(n+1) for 'rc', n the rc counter of the input or 0.
C6_Bump ==
    (gv.done /\ gv.valid /\ gv.type \in VersionTypes) =>
        LET p == gv.parts
            major == ToDecimal(p.major)
            minor == ToDecimal(p.minor)
            patch == ToDecimal(p.patch)
            n == IF p.rc < 0 THEN 0 ELSE p.rc
            expected ==
                CASE gv.type = "patch" ->
                         Dotted(major, minor, ToDecimal(p.patch + 1))
                  [] gv.type = "minor" ->
                         Dotted(major, ToDecimal(p.minor + 1), <<"0">>)
                  [] gv.type = "major" ->
                         Dotted(ToDecimal(p.major + 1), <<"0">>, <<"0">>)
                  [] gv.type = "rc" ->
                         Dotted(major, minor, patch) \o <<"-", "r", "c", ".">>
                         \o ToDecimal(n + 1)
        IN  /\ gv.result = [status |-> "return", value |-> expected]
            /\ (gv.type = "rc" /\ gv.version = <<"1", ".", "2", ".", "3">>) =>
                   gv.result.value = <<"1", ".", "2", ".", "3", "-", "r", "c", ".", "1">>
            /\ (gv.type = "rc"
                /\ gv.version = <<"1", ".", "2", ".", "3", "-", "r", "c", ".", "1">>) =>
                   gv.result.value = <<"1", ".", "2", ".", "3", "-", "r", "c", ".", "2">>

\* '1.2.3-rc.9' bumped by 'rc'
C6_Witness ==
    /\ gv.done
    /\ gv.valid
    /\ gv.type = "rc"
    /\ gv.version = <<"1", ".", "2", ".", "3", "-", "r", "c", ".", "9">>
    /\ gv.result.value = <<"1", ".", "2", ".", "3", "-", "r", "c", ".", "1", "0">>

EmptyRcCall == gv.done /\ gv.version = <<>> /\ gv.type = "rc"

\* C7 as stated: generate_version('', 'rc') returns '0.0.1-rc.0'.
C7_EmptyRcIsRcZero ==
    EmptyRcCall =>
        gv.result = [status |-> "return",
                     value |-> <<"0", ".", "0", ".", "1", "-", "r", "c", ".", "0">>]

\* C7 amended: with no prior version and kind 'rc' the baseline 0.0.1-rc.0 is
\* bumped like any other version, and generate_version returns '0.0.1-rc.1'.
C7_EmptyRcIsRcOne ==
    EmptyRcCall =>
        gv.result = [status |-> "return",
                     value |-> <<"0", ".", "0", ".", "1", "-", "r", "c", ".", "1">>]

C7_Witness == EmptyRcCall /\ gv.result.status = "return"

\* C8: publish_version selects 'rc' on develop and 'patch' on every other
\* branch, and the version it writes to the changelog and tags with is
\* generate_version(current version of the changelog, selected kind): 1.2.3
\* gives 1.2.3-rc.1 on develop and 1.2.4 on feature/x.
C8_BumpKind ==
    Succeeded("generate_version") =>
        LET current == get_current_version(before.changelog)
            kind == IF target_branch = "develop" THEN "rc" ELSE "patch"
            generated == generate_version(current, kind)
        IN  /\ version_type = kind
            /\ generated.status = "return"
            /\ new_version = generated.value
            /\ current = <<"1", ".", "2", ".", "3">> =>
                   new_version =
                       IF target_branch = "develop"
                           THEN <<"1", ".", "2", ".", "3", "-", "r", "c", ".", "1">>
                       ELSE <<"1", ".", "2", ".", "4">>
            /\ Succeeded("generate_changelog") =>
                   readline(changelog) = new_version \o <<NL>>
            /\ Succeeded("git_tag") => tags = Append(before.tags, new_version)

\* 1.2.3 published on feature/x: the tag 1.2.4
C8_Witness ==
    /\ Succeeded("git_tag")
    /\ target_branch = "feature/x"
    /\ get_current_version(before.changelog) = <<"1", ".", "2", ".", "3">>
    /\ tags[Len(tags)] = <<"1", ".", "2", ".", "4">>

Contains(item, c) == \E i \in DOMAIN item : item[i] = c

\* what one source line becomes
CleanLine(line) == Strip(RemoveBullets(Strip(RemoveMember(Strip(line)))))

\* C9: every item clean_content returns is a single non-empty line without
\* leading or trailing whitespace that begins neither with a '-' or '*' marker
\* nor with a checklist marker '- [ ] @handle'; the items are, in the order of
\* their source lines, what the lines become, and only the lines that become
\* empty are dropped; a line with no marker is kept as trimmed.
C9_CleanItems ==
    cc.done =>
        LET items == cc.result
            lines == Split(cc.text)
            kept == SelectSeq(lines, LAMBDA l : CleanLine(l) # <<>>)
        IN  /\ \A i \in DOMAIN items :
                   /\ items[i] # <<>>
                   /\ ~Contains(items[i], NL)
                   /\ items[i][1] \notin Space
                   /\ items[i][Len(items[i])] \notin Space
                   /\ items[i][1] \notin {"-", "*"}
                   /\ MemberEnd(items[i]) = 0
            /\ Len(items) = Len(kept)
            /\ \A i \in DOMAIN items : items[i] = CleanLine(kept[i])
            /\ \A k \in DOMAIN lines :
                   (Strip(lines[k]) # <<>> /\ Strip(lines[k])[1] \notin {"-", "*"}) =>
                       \E i \in DOMAIN items : items[i] = Strip(lines[k])

\* two bullet lines, the first with a repeated marker
C9_Witness ==
    /\ cc.done
    /\ cc.text = <<"-", "-", "x", NL, "*">>
    /\ cc.result = <<<<"x">>>>

\* C10: the effects of the operations that succeeded stay in place whatever
\* fails later, an operation that failed has no effect, and no operation is
\* started twice in one invocation.
C10_NoRollbackNoRetry ==
    /\ \A op \in {calls[i] : i \in DOMAIN calls} : Count(op) = 1
    /\ changelog =
           IF Succeeded("generate_changelog")
               THEN ChangelogEntry(new_version, new_version_changes, now,
                                   UniversalNewlines(before.changelog))
           ELSE before.changelog
    /\ commits =
           IF Succeeded("git_commit")
               THEN Append(before.commits, CommitMessage(target_branch))
           ELSE before.commits
    /\ tags =
           IF Succeeded("git_tag") THEN Append(before.tags, new_version)
           ELSE before.tags
    /\ remote_commits =
           IF Succeeded("git_push_branch") THEN commits
           ELSE before.remote_commits
    /\ remote_tags =
           IF Succeeded("git_push_tags") THEN tags ELSE before.remote_tags
    /\ Len(created) =
           Len(before.created)
           + (IF Succeeded("create_merge_request") THEN 1 ELSE 0)
    /\ IsPrefixOf(before.created, created)
    /\ merged =
           IF Succeeded("merge") THEN Append(before.merged, Len(created))
           ELSE before.merged

\* a push that failed after the tag was made: the tag, the commit and the new
\* changelog entry are still there
C10_Witness ==
    /\ outcome = "PushError"
    /\ failed_op = "git_push_branch"
    /\ tags # before.tags
    /\ commits # before.commits
    /\ changelog # before.changelog

\* C11: the merge request changes are those of the first merge request, in the
\* order of the response, whose merge_commit_sha is the commit SHA: its
\* normalised description when it has one, the empty list when it has none
\* (whatever a later merge request of the same SHA says) and the empty list
\* when no merge request has that SHA
MatchingMergeRequests ==
    {i \in DOMAIN merge_requests :
         merge_requests[i].merge_commit_sha = commit_sha}

FirstMatching ==
    CHOOSE i \in MatchingMergeRequests :
        \A j \in MatchingMergeRequests : i <= j

C11_FirstMatchOnly ==
    Succeeded("get_merge_request_changes") =>
        merge_request_changes =
            IF MatchingMergeRequests = {} THEN <<>>
            ELSE IF merge_requests[FirstMatching].description # <<>>
                THEN clean_content(merge_requests[FirstMatching].description)
            ELSE <<>>

C11_Witness ==
    /\ Succeeded("get_merge_request_changes")
    /\ MatchingMergeRequests # {}
    /\ merge_requests[FirstMatching].description = <<>>
    /\ \E j \in MatchingMergeRequests :
           /\ j > FirstMatching
           /\ clean_content(merge_requests[j].description) # <<>>
    /\ merge_request_changes = <<>>

C11_NoMatchWitness ==
    /\ Succeeded("get_merge_request_changes")
    /\ MatchingMergeRequests = {}
    /\ merge_requests # <<>>
    /\ merge_request_changes = <<>>

\* C12: whatever the changelog file was at first and whatever the target
\* branches are, a run that returns leaves a file from which
\* get_current_version reads exactly the version the run wrote, that version
\* is the tag the run made, and no tag name is made twice: the version of a
\* run differs from the version of every earlier run
C12_FreshVersions ==
    /\ \A i, j \in DOMAIN tags : i < j => tags[i] # tags[j]
    /\ (pc = "done" /\ outcome = "returned") =>
           /\ get_current_version(changelog) = new_version
           /\ tags = Append(before.tags, new_version)
           /\ \A i \in DOMAIN before.tags : before.tags[i] # new_version

\* a patch release on master that went through to the merge, then a release
\* candidate that returned, on the file the first run left
C12_Witness ==
    /\ run >= 2
    /\ pc = "done"
    /\ outcome = "returned"
    /\ version_type = "rc"
    /\ before.merged # <<>>
    /\ Len(before.tags) = run - 1
    /\ before.remote_tags = before.tags
    /\ Len(tags) = run
    /\ get_current_version(changelog) = tags[Len(tags)]

\* C13: publish_version never fails with InvalidVersion: whatever the content
\* of the changelog file, get_current_version returns the empty string or a
\* text that holds a numeric triple, the kind is patch or rc, and
\* generate_version returns a version text for it; it neither raises nor
\* returns nothing
C13_NeverInvalidVersion ==
    gv.done =>
        /\ gv.current = <<>> \/ SearchTriple(gv.current).found
        /\ gv.version_type \in {"patch", "rc"}
        /\ gv.result.status = "return"
        /\ MatchTripleAt(gv.result.value, 1).found

\* a file with a version on its second line only: the first line gives the
\* empty string, and the first release candidate is generated
C13_Witness ==
    /\ gv.done
    /\ "content" \in DOMAIN gv
    /\ ~SearchTriple(readline(gv.content)).found
    /\ SearchTriple(gv.content).found
    /\ gv.current = <<>>
    /\ gv.version_type = "rc"
    /\ gv.result = Returned(<<"0", ".", "0", ".", "1", "-", "r", "c", ".", "1">>)

\* C14: for every non-empty change set clean_content can return, clean_content
\* of the description of the automatic merge request built from it (each item
\* after '- ', then the '- - -' separator and the '- [ ] @brunabxs' footer) is
\* that change set again, and so is clean_content of its items joined by line
\* breaks
C14_DescriptionRoundTrip ==
    (cc.done /\ "description" \in DOMAIN cc) =>
        /\ cc.again = cc.result
        /\ cc.joined = cc.result

\* the part that holds: clean_content of its own result joined by line breaks
\* is that result
CleanContentIdempotent ==
    (cc.done /\ "description" \in DOMAIN cc) => cc.joined = cc.result

====
